---- MODULE Spec2Model ----
(***************************************************************************)
(* Model of neuralhash_macos: calculate_neural_hash (hasher.py) driving    *)
(* the private Vision request pipeline, and the byte-format converter.     *)
(*                                                                         *)
(* Python str and bytes values are sequences of code points / byte values  *)
(* (a str of the model holds ASCII code points, e.g. "hex" is              *)
(* <<104, 101, 120>>).  Error messages are kept as the leading words of    *)
(* the message the code builds.  Every value that comes back from the      *)
(* native bridge (PyObjC, Foundation, Vision) is a nondeterministic choice.*)
(***************************************************************************)
EXTENDS Integers, Sequences, FiniteSets, TLC

VARIABLES
    PYOBJC_AVAILABLE,        \* module flag set by the import probe
    pc,                      \* position inside calculate_neural_hash
    image_path,              \* argument
    output_format,           \* argument: an OutputFormat member or a str
    output_format_enum,      \* local: the normalised member, "" before it is bound
    pool,                    \* the autorelease pool: "none", "held", "released"
    NeuralHashRequestClass,  \* "unset", "notfound" (lookup raised NotFoundError), "class"
    image_url,               \* "unset", "null", "object"
    request_handler,         \* "unset", "null", "object"
    neural_hash_request,     \* the request instance: its shape and configuration
    success,                 \* flag returned by performRequests: "unset", "true", "false"
    results,                 \* the observation list returned by results()
    obs,                     \* position of the for loop in results (0: not started)
    image_h_data_ns,         \* what the encoding method returned for results[obs]
    calls,                   \* history: native and helper calls made by this call
    outcome,                 \* how the call ended: returned value or raised error
    \* cli.main
    cli_PYOBJC_AVAILABLE,    \* the flag as bound in cli.py by the from-import
    cli_pc,                  \* position inside main: "off", "start", "probe", "loop", "exit", "exited"
    args_image_paths,        \* args.image_paths: what each path is on disk
    args_format,             \* args.format: a value of OutputFormat
    path_index,              \* number of paths the for loop has gone through
    any_successful_processing,
    exit_code,
    exit_status,             \* the code given to sys.exit, -1 while main runs
    cli_pool,                \* main's own autorelease pool: "none", "held", "released"
    stdout,                  \* lines printed to standard output
    stderr,                  \* lines printed to standard error
    invocations,             \* history: the calls of calculate_neural_hash made by main
    \* _convert_raw_hash_bytes called on its own
    conv_raw_bytes,          \* argument
    conv_format,             \* argument: an OutputFormat member or anything else
    conv_result              \* the string returned or the error raised

hasherVars == <<PYOBJC_AVAILABLE, pc, image_path, output_format, output_format_enum,
                pool, NeuralHashRequestClass, image_url, request_handler,
                neural_hash_request, success, results, obs, image_h_data_ns, calls,
                outcome>>

cliVars == <<cli_PYOBJC_AVAILABLE, cli_pc, args_image_paths, args_format, path_index,
             any_successful_processing, exit_code, exit_status, cli_pool, stdout,
             stderr, invocations>>

convVars == <<conv_raw_bytes, conv_format, conv_result>>

vars == <<hasherVars, cliVars, convVars>>

(***************************************************************************)
(* Bounds                                                                  *)
(***************************************************************************)
MaxResults == 2
MaxDescLen == 4
MaxPaths == 3
MaxBytesLen == 3

\* byte values the framework blob is built from:
\* 'Q' (81): base64 alphabet; '=' (61): pad; '!' (33): ASCII outside
\* the alphabet; 200: not ASCII
DescBytes == {81, 61, 33, 200}

\* "QUJDREVGR0hJSktM", the descriptor used by the tests
HYPOTHETICAL_B64_HASH ==
    <<81, 85, 74, 68, 82, 69, 86, 71, 82, 48, 104, 74, 83, 107, 116, 77>>

RECURSIVE SeqsUpTo(_, _)
SeqsUpTo(S, n) ==
    IF n = 0 THEN {<<>>}
    ELSE LET shorter == SeqsUpTo(S, n - 1)
         IN  shorter \cup {Append(s, x) : s \in {t \in shorter : Len(t) = n - 1}, x \in S}

Blobs == SeqsUpTo(DescBytes, MaxDescLen) \cup {HYPOTHETICAL_B64_HASH}

ImagePaths == {"sample.png", "other.jpg"}

(***************************************************************************)
(* OutputFormat enum                                                       *)
(***************************************************************************)
OutputFormatMembers == {"HEX", "BASE64", "BITS"}

\* the value of a member: "hex", "base64", "bits"
OutputFormatValue(m) ==
    CASE m = "HEX"    -> <<104, 101, 120>>
      [] m = "BASE64" -> <<98, 97, 115, 101, 54, 52>>
      [] m = "BITS"   -> <<98, 105, 116, 115>>

\* OutputFormat(value): lookup by value, "ValueError" when no member has it
OutputFormatLookup(v) ==
    IF \E m \in OutputFormatMembers : OutputFormatValue(m) = v
    THEN CHOOSE m \in OutputFormatMembers : OutputFormatValue(m) = v
    ELSE "ValueError"

\* str.lower() on an ASCII str
Lower(s) == [i \in 1..Len(s) |-> IF s[i] >= 65 /\ s[i] <= 90 THEN s[i] + 32 ELSE s[i]]

\* strings passed as output_format:
\* "hex" "HEX" "Hex" "base64" "Base64" "bits" "BITS" "zzz" "" "hexx"
FormatStrings ==
    { <<104, 101, 120>>, <<72, 69, 88>>, <<72, 101, 120>>,
      <<98, 97, 115, 101, 54, 52>>, <<66, 97, 115, 101, 54, 52>>,
      <<98, 105, 116, 115>>, <<66, 73, 84, 83>>,
      <<122, 122, 122>>, <<>>, <<104, 101, 120, 120>> }

EnumArg(m) == [isEnum |-> TRUE, member |-> m, text |-> <<>>]
StrArg(t)  == [isEnum |-> FALSE, member |-> "", text |-> t]

FormatArgs == {EnumArg(m) : m \in OutputFormatMembers} \cup {StrArg(t) : t \in FormatStrings}

(***************************************************************************)
(* Exceptions                                                              *)
(***************************************************************************)
Taxonomy == {"NeuralHashError", "PyObjCNotAvailableError", "VisionAPIError",
             "ImageProcessingError", "InvalidFormatError"}

\* class hierarchy of exceptions.py: every kind derives from NeuralHashError
IsSubclass(exc, base) ==
    \/ exc = base
    \/ base = "NeuralHashError" /\ exc \in Taxonomy
    \/ base = "Exception"

\* what the native bridge can raise from a call
NativeRaises == {"objc.error", "AttributeError", "Exception"}

NoOutcome == [kind |-> "none", exc |-> "", msg |-> "", cause |-> "", value |-> <<>>]
Raised(exc, msg, cause) ==
    [kind |-> "raised", exc |-> exc, msg |-> msg, cause |-> cause, value |-> <<>>]
Returned(v) ==
    [kind |-> "returned", exc |-> "", msg |-> "", cause |-> "", value |-> v]

(***************************************************************************)
(* base64.b64decode (non-validating) as called at hasher.py:202            *)
(***************************************************************************)
\* value of a character of the standard alphabet, 64 for any other character
B64Value(c) ==
    IF c >= 65 /\ c <= 90 THEN c - 65
    ELSE IF c >= 97 /\ c <= 122 THEN c - 71
    ELSE IF c >= 48 /\ c <= 57 THEN c + 4
    ELSE IF c = 43 THEN 62
    ELSE IF c = 47 THEN 63
    ELSE 64

DecodeOk(bytes) == [ok |-> TRUE, bytes |-> bytes]
DecodeError == [ok |-> FALSE, bytes |-> <<>>]

\* i: next character, quad_pos: characters of the current quad consumed,
\* pads: '=' seen since the last data character, leftchar: bits carried over
RECURSIVE A2bBase64(_, _, _, _, _, _)
A2bBase64(s, i, quad_pos, pads, leftchar, out) ==
    IF i > Len(s)
    THEN IF quad_pos # 0 THEN DecodeError ELSE DecodeOk(out)
    ELSE LET c == s[i]
             v == B64Value(c)
         IN  IF c = 61
             THEN IF quad_pos >= 2 /\ quad_pos + pads + 1 >= 4
                  THEN DecodeOk(out)
                  ELSE A2bBase64(s, i + 1, quad_pos,
                                 IF quad_pos >= 2 THEN pads + 1 ELSE pads,
                                 leftchar, out)
             ELSE IF v >= 64
             THEN A2bBase64(s, i + 1, quad_pos, pads, leftchar, out)
             ELSE CASE quad_pos = 0 ->
                         A2bBase64(s, i + 1, 1, 0, v, out)
                    [] quad_pos = 1 ->
                         A2bBase64(s, i + 1, 2, 0, v % 16,
                                   Append(out, leftchar * 4 + v \div 16))
                    [] quad_pos = 2 ->
                         A2bBase64(s, i + 1, 3, 0, v % 4,
                                   Append(out, leftchar * 16 + v \div 4))
                    [] quad_pos = 3 ->
                         A2bBase64(s, i + 1, 0, 0, 0,
                                   Append(out, leftchar * 64 + v))

b64decode(s) == A2bBase64(s, 1, 0, 0, 0, <<>>)

\* bytes.decode('ascii'): the same code points, UnicodeDecodeError on a byte >= 128
DecodeAscii(bytes) ==
    IF \E i \in 1..Len(bytes) : bytes[i] >= 128 THEN DecodeError ELSE DecodeOk(bytes)

(***************************************************************************)
(* _convert_raw_hash_bytes                                                 *)
(***************************************************************************)
\* upper-case digits
HexDigit_UpperCase(n) == IF n < 10 THEN 48 + n ELSE 55 + n

\* one digit of bytes.hex(): 0-9, a-f
HexDigit(n) == IF n < 10 THEN 48 + n ELSE 87 + n

\* bytes.hex()
RECURSIVE BytesHex(_)
BytesHex(raw_bytes) ==
    IF raw_bytes = <<>> THEN <<>>
    ELSE <<HexDigit(Head(raw_bytes) \div 16), HexDigit(Head(raw_bytes) % 16)>>
         \o BytesHex(Tail(raw_bytes))

\* least significant bit first
Format08b_LsbFirst(byte) == [k \in 1..8 |-> 48 + ((byte \div (2 ^ (k - 1))) % 2)]

\* format(byte, '08b')
Format08b(byte) == [k \in 1..8 |-> 48 + ((byte \div (2 ^ (8 - k))) % 2)]

\* "".join(format(byte, '08b') for byte in raw_bytes)
RECURSIVE BytesBits(_)
BytesBits(raw_bytes) ==
    IF raw_bytes = <<>> THEN <<>>
    ELSE Format08b(Head(raw_bytes)) \o BytesBits(Tail(raw_bytes))

B64Char(v) ==
    IF v < 26 THEN 65 + v
    ELSE IF v < 52 THEN 71 + v
    ELSE IF v < 62 THEN v - 4
    ELSE IF v = 62 THEN 43
    ELSE 47

\* base64.b64encode(raw_bytes).decode('ascii')
RECURSIVE B64Encode(_)
B64Encode(raw_bytes) ==
    CASE Len(raw_bytes) = 0 -> <<>>
      [] Len(raw_bytes) = 1 ->
            <<B64Char(raw_bytes[1] \div 4), B64Char((raw_bytes[1] % 4) * 16), 61, 61>>
      [] Len(raw_bytes) = 2 ->
            <<B64Char(raw_bytes[1] \div 4),
              B64Char((raw_bytes[1] % 4) * 16 + raw_bytes[2] \div 16),
              B64Char((raw_bytes[2] % 16) * 4), 61>>
      [] OTHER ->
            <<B64Char(raw_bytes[1] \div 4),
              B64Char((raw_bytes[1] % 4) * 16 + raw_bytes[2] \div 16),
              B64Char((raw_bytes[2] % 16) * 4 + raw_bytes[3] \div 64),
              B64Char(raw_bytes[3] % 64)>>
            \o B64Encode(SubSeq(raw_bytes, 4, Len(raw_bytes)))

\* output_format_enum is an argument as in FormatArgs (a member or anything else)
ConvertRawHashBytes(raw_bytes, fmt) ==
    IF ~fmt.isEnum
    THEN Raised("InvalidFormatError", "Internal error: _convert_raw_hash_bytes received non-enum format", "")
    ELSE CASE fmt.member = "HEX"    -> Returned(BytesHex(raw_bytes))
           [] fmt.member = "BITS"   -> Returned(BytesBits(raw_bytes))
           [] fmt.member = "BASE64" -> Returned(B64Encode(raw_bytes))
           [] OTHER -> Raised("InvalidFormatError", "Unsupported output format for raw byte conversion", "")

(***************************************************************************)
(* The native objects                                                      *)
(***************************************************************************)
\* an observation: does it expose imageSignatureHash, and what the accessor
\* gives: "null", a hash object without the encoding method ("noEncoder"),
\* or a hash object with it ("encoder")
Observations ==
    {[hasAccessor |-> FALSE, hash |-> "null"]}
    \cup {[hasAccessor |-> TRUE, hash |-> h] : h \in {"null", "noEncoder", "encoder"}}

ResultLists == SeqsUpTo(Observations, MaxResults)

NoRequest ==
    [exists |-> FALSE, hasPrintTypeSetter |-> FALSE, hasHashTypeSetter |-> FALSE,
     printType |-> 0, hashType |-> 0]

\* a fresh instance of the private request class, of whatever shape this OS gives it
RequestShapes ==
    {[exists |-> TRUE, hasPrintTypeSetter |-> p, hasHashTypeSetter |-> h,
      printType |-> 0, hashType |-> 0] : p \in BOOLEAN, h \in BOOLEAN}

NoData == [state |-> "unset", bytes |-> <<>>]
NullData == [state |-> "null", bytes |-> <<>>]
Data(b) == [state |-> "data", bytes |-> b]

NativeMessage(e) ==
    CASE e = "objc.error"     -> "Simulated ObjC error"
      [] e = "AttributeError" -> "object has no attribute"
      [] OTHER                -> "unexpected"

Entry(op, arg) == [op |-> op, arg |-> arg]
Log(op) == Append(calls, Entry(op, 0))

(***************************************************************************)
(* calculate_neural_hash                                                   *)
(***************************************************************************)
\* no clause for objc.error: it falls through to the last clause
Handle_ObjcErrorGeneric(exc, msg) ==
    IF exc = "AttributeError"
    THEN Raised("VisionAPIError", "An AttributeError occurred", msg)
    ELSE IF \E k \in {"ImageProcessingError", "VisionAPIError", "InvalidFormatError",
                      "NeuralHashError"} : IsSubclass(exc, k)
    THEN Raised(exc, msg, "")
    ELSE Raised("NeuralHashError", "A Python error occurred while processing", msg)

\* no clause that re-raises the taxonomy's own kinds
Handle_TaxonomyRewrapped(exc, msg) ==
    IF exc = "objc.error"
    THEN Raised("VisionAPIError", "An Objective-C error occurred processing", msg)
    ELSE IF exc = "AttributeError"
    THEN Raised("VisionAPIError", "An AttributeError occurred", msg)
    ELSE Raised("NeuralHashError", "A Python error occurred while processing", msg)

\* the except clauses of the outer try, in their order
Handle(exc, msg) ==
    IF exc = "objc.error"
    THEN Raised("VisionAPIError", "An Objective-C error occurred processing", msg)
    ELSE IF exc = "AttributeError"
    THEN Raised("VisionAPIError", "An AttributeError occurred", msg)
    ELSE IF \E k \in {"ImageProcessingError", "VisionAPIError", "InvalidFormatError",
                      "NeuralHashError"} : IsSubclass(exc, k)
    THEN Raised(exc, msg, "")
    ELSE Raised("NeuralHashError", "A Python error occurred while processing", msg)

\* a raise inside the outer try: the matching except clause, then the finally block
RaiseInTry(exc, msg) ==
    /\ outcome' = Handle(exc, msg)
    /\ pc' = "finally"

\* the bridge raises instead of returning
NativeRaise ==
    \E e \in NativeRaises : RaiseInTry(e, NativeMessage(e))

\* a caller invokes calculate_neural_hash(image_path, output_format)
Call ==
    /\ pc \in {"idle", "done"}
    /\ \E p \in ImagePaths, f \in FormatArgs :
          /\ image_path' = p
          /\ output_format' = f
    /\ output_format_enum' = ""
    /\ pool' = "none"
    /\ NeuralHashRequestClass' = "unset"
    /\ image_url' = "unset"
    /\ request_handler' = "unset"
    /\ neural_hash_request' = NoRequest
    /\ success' = "unset"
    /\ results' = <<>>
    /\ obs' = 0
    /\ image_h_data_ns' = NoData
    /\ calls' = <<>>
    /\ outcome' = NoOutcome
    /\ pc' = "ensure"
    /\ UNCHANGED PYOBJC_AVAILABLE
    /\ UNCHANGED <<cliVars, convVars>>

\* the availability check left out
EnsurePyObjCAvailable_NoCheck ==
    /\ pc = "ensure"
    /\ pc' = "parse_format"
    /\ UNCHANGED <<cliVars, convVars>>
    /\ UNCHANGED <<PYOBJC_AVAILABLE, image_path, output_format,
                   output_format_enum, pool, NeuralHashRequestClass, image_url,
                   request_handler, neural_hash_request, success, results, obs,
                   image_h_data_ns, calls, outcome>>

EnsurePyObjCAvailable ==
    /\ pc = "ensure"
    /\ IF ~PYOBJC_AVAILABLE
       THEN /\ outcome' = Raised("PyObjCNotAvailableError",
                                 "PyObjC (Foundation, Vision) not found", "")
            /\ pc' = "done"
       ELSE /\ pc' = "parse_format"
            /\ UNCHANGED outcome
    /\ UNCHANGED <<cliVars, convVars>>
    /\ UNCHANGED <<PYOBJC_AVAILABLE, image_path, output_format,
                   output_format_enum, pool, NeuralHashRequestClass, image_url,
                   request_handler, neural_hash_request, success, results, obs,
                   image_h_data_ns, calls>>

\* an unknown string falls back to the default member
NormalizeFormat_DefaultsToHex(fmt) ==
    IF fmt.isEnum THEN fmt.member
    ELSE IF OutputFormatLookup(Lower(fmt.text)) = "ValueError" THEN "HEX"
    ELSE OutputFormatLookup(Lower(fmt.text))

\* the member for the output_format argument, "ValueError" when there is none
NormalizeFormat(fmt) ==
    IF fmt.isEnum THEN fmt.member ELSE OutputFormatLookup(Lower(fmt.text))

ParseOutputFormat ==
    /\ pc = "parse_format"
    /\ IF NormalizeFormat(output_format) = "ValueError"
       THEN /\ outcome' = Raised("InvalidFormatError", "Invalid output_format value", "")
            /\ pc' = "done"
            /\ UNCHANGED output_format_enum
       ELSE /\ output_format_enum' = NormalizeFormat(output_format)
            /\ pc' = "alloc_pool"
            /\ UNCHANGED outcome
    /\ UNCHANGED <<cliVars, convVars>>
    /\ UNCHANGED <<PYOBJC_AVAILABLE, image_path, output_format, pool,
                   NeuralHashRequestClass, image_url, request_handler,
                   neural_hash_request, success, results, obs, image_h_data_ns,
                   calls>>

AllocPool ==
    /\ pc = "alloc_pool"
    /\ pool' = "held"
    /\ calls' = Log("NSAutoreleasePool.alloc.init")
    /\ pc' = "lookup"
    /\ UNCHANGED <<cliVars, convVars>>
    /\ UNCHANGED <<PYOBJC_AVAILABLE, image_path, output_format,
                   output_format_enum, NeuralHashRequestClass, image_url,
                   request_handler, neural_hash_request, success, results, obs,
                   image_h_data_ns, outcome>>

\* a failed lookup reported with the base error
LookUpClass_RaisesBaseError ==
    /\ pc = "lookup"
    /\ calls' = Log("objc.lookUpClass")
    /\ \/ /\ NeuralHashRequestClass' = "class"
          /\ pc' = "url"
          /\ UNCHANGED outcome
       \/ /\ NeuralHashRequestClass' = "notfound"
          /\ RaiseInTry("NeuralHashError", "Required Vision class not found")
       \/ /\ NativeRaise
          /\ UNCHANGED NeuralHashRequestClass
    /\ UNCHANGED <<cliVars, convVars>>
    /\ UNCHANGED <<PYOBJC_AVAILABLE, image_path, output_format,
                   output_format_enum, pool, image_url, request_handler,
                   neural_hash_request, success, results, obs, image_h_data_ns>>

LookUpClass ==
    /\ pc = "lookup"
    /\ calls' = Log("objc.lookUpClass")
    /\ \/ /\ NeuralHashRequestClass' = "class"
          /\ pc' = "url"
          /\ UNCHANGED outcome
       \/ /\ NeuralHashRequestClass' = "notfound"
          /\ RaiseInTry("VisionAPIError", "Required Vision class not found")
       \/ /\ NativeRaise
          /\ UNCHANGED NeuralHashRequestClass
    /\ UNCHANGED <<cliVars, convVars>>
    /\ UNCHANGED <<PYOBJC_AVAILABLE, image_path, output_format,
                   output_format_enum, pool, image_url, request_handler,
                   neural_hash_request, success, results, obs, image_h_data_ns>>

FileURLWithPath ==
    /\ pc = "url"
    /\ calls' = Log("NSURL.fileURLWithPath_")
    /\ \/ /\ image_url' = "object"
          /\ pc' = "handler"
          /\ UNCHANGED outcome
       \/ /\ image_url' = "null"
          /\ RaiseInTry("ImageProcessingError", "Could not create a valid URL")
       \/ /\ NativeRaise
          /\ UNCHANGED image_url
    /\ UNCHANGED <<cliVars, convVars>>
    /\ UNCHANGED <<PYOBJC_AVAILABLE, image_path, output_format,
                   output_format_enum, pool, NeuralHashRequestClass,
                   request_handler, neural_hash_request, success, results, obs,
                   image_h_data_ns>>

\* a null handler reported as a Vision API failure
InitRequestHandler_WrongKind ==
    /\ pc = "handler"
    /\ calls' = Log("VNImageRequestHandler.initWithURL_options_")
    /\ \/ /\ request_handler' = "object"
          /\ pc' = "init_request"
          /\ UNCHANGED outcome
       \/ /\ request_handler' = "null"
          /\ RaiseInTry("VisionAPIError", "Could not initialize image request handler")
       \/ /\ NativeRaise
          /\ UNCHANGED request_handler
    /\ UNCHANGED <<cliVars, convVars>>
    /\ UNCHANGED <<PYOBJC_AVAILABLE, image_path, output_format,
                   output_format_enum, pool, NeuralHashRequestClass, image_url,
                   neural_hash_request, success, results, obs, image_h_data_ns>>

InitRequestHandler ==
    /\ pc = "handler"
    /\ calls' = Log("VNImageRequestHandler.initWithURL_options_")
    /\ \/ /\ request_handler' = "object"
          /\ pc' = "init_request"
          /\ UNCHANGED outcome
       \/ /\ request_handler' = "null"
          /\ RaiseInTry("ImageProcessingError", "Could not initialize image request handler")
       \/ /\ NativeRaise
          /\ UNCHANGED request_handler
    /\ UNCHANGED <<cliVars, convVars>>
    /\ UNCHANGED <<PYOBJC_AVAILABLE, image_path, output_format,
                   output_format_enum, pool, NeuralHashRequestClass, image_url,
                   neural_hash_request, success, results, obs, image_h_data_ns>>

InitRequest ==
    /\ pc = "init_request"
    /\ calls' = Log("NeuralHashRequestClass.alloc.init")
    /\ \/ /\ \E r \in RequestShapes : neural_hash_request' = r
          /\ pc' = "check_setters"
          /\ UNCHANGED outcome
       \/ /\ RaiseInTry("VisionAPIError", "Failed to init NeuralHash request object")
          /\ UNCHANGED neural_hash_request
       \/ /\ NativeRaise
          /\ UNCHANGED neural_hash_request
    /\ UNCHANGED <<cliVars, convVars>>
    /\ UNCHANGED <<PYOBJC_AVAILABLE, image_path, output_format,
                   output_format_enum, pool, NeuralHashRequestClass, image_url,
                   request_handler, success, results, obs, image_h_data_ns>>

\* only the first setter is looked for
CheckSetters_FirstOnly ==
    /\ pc = "check_setters"
    /\ IF ~neural_hash_request.hasPrintTypeSetter
       THEN RaiseInTry("VisionAPIError", "instance missing required setters")
       ELSE /\ pc' = "set_print_type"
            /\ UNCHANGED outcome
    /\ UNCHANGED <<cliVars, convVars>>
    /\ UNCHANGED <<PYOBJC_AVAILABLE, image_path, output_format,
                   output_format_enum, pool, NeuralHashRequestClass, image_url,
                   request_handler, neural_hash_request, success, results, obs,
                   image_h_data_ns, calls>>

CheckSetters ==
    /\ pc = "check_setters"
    /\ IF ~neural_hash_request.hasPrintTypeSetter \/ ~neural_hash_request.hasHashTypeSetter
       THEN RaiseInTry("VisionAPIError", "instance missing required setters")
       ELSE /\ pc' = "set_print_type"
            /\ UNCHANGED outcome
    /\ UNCHANGED <<cliVars, convVars>>
    /\ UNCHANGED <<PYOBJC_AVAILABLE, image_path, output_format,
                   output_format_enum, pool, NeuralHashRequestClass, image_url,
                   request_handler, neural_hash_request, success, results, obs,
                   image_h_data_ns, calls>>

SetPrintType ==
    /\ pc = "set_print_type"
    /\ calls' = Append(calls, Entry("setImageSignatureprintType_", 3))
    /\ \/ /\ neural_hash_request' = [neural_hash_request EXCEPT !.printType = 3]
          /\ pc' = "set_hash_type"
          /\ UNCHANGED outcome
       \/ /\ NativeRaise
          /\ UNCHANGED neural_hash_request
    /\ UNCHANGED <<cliVars, convVars>>
    /\ UNCHANGED <<PYOBJC_AVAILABLE, image_path, output_format,
                   output_format_enum, pool, NeuralHashRequestClass, image_url,
                   request_handler, success, results, obs, image_h_data_ns>>

SetHashType ==
    /\ pc = "set_hash_type"
    /\ calls' = Append(calls, Entry("setImageSignatureHashType_", 1))
    /\ \/ /\ neural_hash_request' = [neural_hash_request EXCEPT !.hashType = 1]
          /\ pc' = "perform"
          /\ UNCHANGED outcome
       \/ /\ NativeRaise
          /\ UNCHANGED neural_hash_request
    /\ UNCHANGED <<cliVars, convVars>>
    /\ UNCHANGED <<PYOBJC_AVAILABLE, image_path, output_format,
                   output_format_enum, pool, NeuralHashRequestClass, image_url,
                   request_handler, success, results, obs, image_h_data_ns>>

\* the success flag is not looked at
PerformRequests_FlagIgnored ==
    /\ pc = "perform"
    /\ calls' = Log("performRequests_error_")
    /\ \/ /\ \E ok \in {"true", "false"} : success' = ok
          /\ pc' = "results"
          /\ UNCHANGED outcome
       \/ /\ NativeRaise
          /\ UNCHANGED success
    /\ UNCHANGED <<cliVars, convVars>>
    /\ UNCHANGED <<PYOBJC_AVAILABLE, image_path, output_format,
                   output_format_enum, pool, NeuralHashRequestClass, image_url,
                   request_handler, neural_hash_request, results, obs,
                   image_h_data_ns>>

PerformRequests ==
    /\ pc = "perform"
    /\ calls' = Log("performRequests_error_")
    /\ \/ /\ success' = "true"
          /\ pc' = "results"
          /\ UNCHANGED outcome
       \/ /\ success' = "false"
          /\ RaiseInTry("VisionAPIError", "Vision request failed")
       \/ /\ NativeRaise
          /\ UNCHANGED success
    /\ UNCHANGED <<cliVars, convVars>>
    /\ UNCHANGED <<PYOBJC_AVAILABLE, image_path, output_format,
                   output_format_enum, pool, NeuralHashRequestClass, image_url,
                   request_handler, neural_hash_request, results, obs,
                   image_h_data_ns>>

\* an empty list is handed to the loop
GetResults_EmptyNotChecked ==
    /\ pc = "results"
    /\ calls' = Log("results")
    /\ \/ /\ \E r \in ResultLists : results' = r
          /\ pc' = "loop"
          /\ UNCHANGED outcome
       \/ /\ NativeRaise
          /\ UNCHANGED results
    /\ UNCHANGED <<cliVars, convVars>>
    /\ UNCHANGED <<PYOBJC_AVAILABLE, image_path, output_format,
                   output_format_enum, pool, NeuralHashRequestClass, image_url,
                   request_handler, neural_hash_request, success, obs,
                   image_h_data_ns>>

GetResults ==
    /\ pc = "results"
    /\ calls' = Log("results")
    /\ \/ \E r \in ResultLists :
             /\ results' = r
             /\ IF r = <<>>
                THEN RaiseInTry("VisionAPIError", "No results returned from Vision request")
                ELSE /\ pc' = "loop"
                     /\ UNCHANGED outcome
       \/ /\ NativeRaise
          /\ UNCHANGED results
    /\ UNCHANGED <<cliVars, convVars>>
    /\ UNCHANGED <<PYOBJC_AVAILABLE, image_path, output_format,
                   output_format_enum, pool, NeuralHashRequestClass, image_url,
                   request_handler, neural_hash_request, success, obs,
                   image_h_data_ns>>

\* the for statement: the next observation, or the code after the loop
LoopNext ==
    /\ pc = "loop"
    /\ IF obs = Len(results)
       THEN /\ RaiseInTry("NeuralHashError", "Could not extract NeuralHash from any observation")
            /\ UNCHANGED obs
       ELSE /\ obs' = obs + 1
            /\ pc' = "check_accessor"
            /\ UNCHANGED outcome
    /\ UNCHANGED <<cliVars, convVars>>
    /\ UNCHANGED <<PYOBJC_AVAILABLE, image_path, output_format,
                   output_format_enum, pool, NeuralHashRequestClass, image_url,
                   request_handler, neural_hash_request, success, results,
                   image_h_data_ns, calls>>

\* an observation without the accessor is a hard stop
CheckAccessor_MissingIsFatal ==
    /\ pc = "check_accessor"
    /\ IF ~results[obs].hasAccessor
       THEN RaiseInTry("VisionAPIError", "Observation does not have imageSignatureHash")
       ELSE /\ pc' = "get_hash"
            /\ UNCHANGED outcome
    /\ UNCHANGED <<cliVars, convVars>>
    /\ UNCHANGED <<PYOBJC_AVAILABLE, image_path, output_format,
                   output_format_enum, pool, NeuralHashRequestClass, image_url,
                   request_handler, neural_hash_request, success, results, obs,
                   image_h_data_ns, calls>>

CheckAccessor ==
    /\ pc = "check_accessor"
    /\ pc' = IF ~results[obs].hasAccessor THEN "loop" ELSE "get_hash"
    /\ UNCHANGED outcome
    /\ UNCHANGED <<cliVars, convVars>>
    /\ UNCHANGED <<PYOBJC_AVAILABLE, image_path, output_format,
                   output_format_enum, pool, NeuralHashRequestClass, image_url,
                   request_handler, neural_hash_request, success, results, obs,
                   image_h_data_ns, calls>>

ImageSignatureHash ==
    /\ pc = "get_hash"
    /\ calls' = Append(calls, Entry("imageSignatureHash", obs))
    /\ \/ /\ pc' = IF results[obs].hash = "null" THEN "loop" ELSE "check_encoder"
          /\ UNCHANGED outcome
       \/ NativeRaise
    /\ UNCHANGED <<cliVars, convVars>>
    /\ UNCHANGED <<PYOBJC_AVAILABLE, image_path, output_format,
                   output_format_enum, pool, NeuralHashRequestClass, image_url,
                   request_handler, neural_hash_request, success, results, obs,
                   image_h_data_ns>>

\* a hash object without the encoding method is passed over
CheckEncoder_MissingIsSkipped ==
    /\ pc = "check_encoder"
    /\ pc' = IF results[obs].hash = "noEncoder" THEN "loop" ELSE "encode"
    /\ UNCHANGED outcome
    /\ UNCHANGED <<cliVars, convVars>>
    /\ UNCHANGED <<PYOBJC_AVAILABLE, image_path, output_format,
                   output_format_enum, pool, NeuralHashRequestClass, image_url,
                   request_handler, neural_hash_request, success, results, obs,
                   image_h_data_ns, calls>>

CheckEncoder ==
    /\ pc = "check_encoder"
    /\ IF results[obs].hash = "noEncoder"
       THEN RaiseInTry("VisionAPIError", "Hash object does not support the required encoding method")
       ELSE /\ pc' = "encode"
            /\ UNCHANGED outcome
    /\ UNCHANGED <<cliVars, convVars>>
    /\ UNCHANGED <<PYOBJC_AVAILABLE, image_path, output_format,
                   output_format_enum, pool, NeuralHashRequestClass, image_url,
                   request_handler, neural_hash_request, success, results, obs,
                   image_h_data_ns, calls>>

EncodeHashDescriptor ==
    /\ pc = "encode"
    /\ calls' = Append(calls, Entry("encodeHashDescriptorWithBase64EncodingAndReturnError_", obs))
    /\ \/ /\ \E b \in Blobs : image_h_data_ns' = Data(b)
          /\ pc' = "extract"
          /\ UNCHANGED outcome
       \/ /\ image_h_data_ns' = NullData
          /\ RaiseInTry("VisionAPIError", "Encoding hash descriptor failed")
       \/ /\ NativeRaise
          /\ UNCHANGED image_h_data_ns
    /\ UNCHANGED <<cliVars, convVars>>
    /\ UNCHANGED <<PYOBJC_AVAILABLE, image_path, output_format,
                   output_format_enum, pool, NeuralHashRequestClass, image_url,
                   request_handler, neural_hash_request, success, results, obs>>

\* the empty string is fatal for every format
ExtractHash_EmptyAlwaysFatal(blob, fmt_enum) ==
    LET decoded == DecodeAscii(blob)
        b64_hash_string == decoded.bytes
        raw == b64decode(b64_hash_string)
    IN  IF ~decoded.ok
        THEN [made |-> <<>>, res |-> Raised("UnicodeDecodeError", "codec can't decode byte", "")]
        ELSE IF b64_hash_string = <<>>
        THEN [made |-> <<>>, res |-> Raised("NeuralHashError", "Obtained empty base64 hash string", "")]
        ELSE IF fmt_enum = "BASE64"
        THEN [made |-> <<>>, res |-> Returned(b64_hash_string)]
        ELSE IF ~raw.ok
        THEN [made |-> <<Entry("base64.b64decode", 0)>>,
              res |-> Raised("NeuralHashError", "Failed to decode base64 hash string", "")]
        ELSE [made |-> <<Entry("base64.b64decode", 0), Entry("_convert_raw_hash_bytes", 0)>>,
              res |-> ConvertRawHashBytes(raw.bytes, EnumArg(fmt_enum))]

\* the empty string is not checked for
ExtractHash_EmptyNotFatal(blob, fmt_enum) ==
    LET decoded == DecodeAscii(blob)
        b64_hash_string == decoded.bytes
        raw == b64decode(b64_hash_string)
    IN  IF ~decoded.ok
        THEN [made |-> <<>>, res |-> Raised("UnicodeDecodeError", "codec can't decode byte", "")]
        ELSE IF fmt_enum = "BASE64"
        THEN [made |-> <<>>, res |-> Returned(b64_hash_string)]
        ELSE IF ~raw.ok
        THEN [made |-> <<Entry("base64.b64decode", 0)>>,
              res |-> Raised("NeuralHashError", "Failed to decode base64 hash string", "")]
        ELSE [made |-> <<Entry("base64.b64decode", 0), Entry("_convert_raw_hash_bytes", 0)>>,
              res |-> ConvertRawHashBytes(raw.bytes, EnumArg(fmt_enum))]

\* the descriptor's own bytes are converted, without base64-decoding them
ExtractHash_NoBase64Decode(blob, fmt_enum) ==
    LET decoded == DecodeAscii(blob)
        b64_hash_string == decoded.bytes
    IN  IF ~decoded.ok
        THEN [made |-> <<>>, res |-> Raised("UnicodeDecodeError", "codec can't decode byte", "")]
        ELSE IF b64_hash_string = <<>> /\ fmt_enum # "BASE64"
        THEN [made |-> <<>>, res |-> Raised("NeuralHashError", "Obtained empty base64 hash string", "")]
        ELSE IF fmt_enum = "BASE64"
        THEN [made |-> <<>>, res |-> Returned(b64_hash_string)]
        ELSE [made |-> <<Entry("_convert_raw_hash_bytes", 0)>>,
              res |-> ConvertRawHashBytes(b64_hash_string, EnumArg(fmt_enum))]

\* lines 189-209 for one blob: the helper calls made, and the string returned
\* or the exception raised inside the try
ExtractHash(blob, fmt_enum) ==
    LET decoded == DecodeAscii(blob)
        b64_hash_string == decoded.bytes
        raw == b64decode(b64_hash_string)
    IN  IF ~decoded.ok
        THEN [made |-> <<>>, res |-> Raised("UnicodeDecodeError", "codec can't decode byte", "")]
        ELSE IF b64_hash_string = <<>> /\ fmt_enum # "BASE64"
        THEN [made |-> <<>>, res |-> Raised("NeuralHashError", "Obtained empty base64 hash string", "")]
        ELSE IF fmt_enum = "BASE64"
        THEN [made |-> <<>>, res |-> Returned(b64_hash_string)]
        ELSE IF ~raw.ok
        THEN [made |-> <<Entry("base64.b64decode", 0)>>,
              res |-> Raised("NeuralHashError", "Failed to decode base64 hash string", "")]
        ELSE [made |-> <<Entry("base64.b64decode", 0), Entry("_convert_raw_hash_bytes", 0)>>,
              res |-> ConvertRawHashBytes(raw.bytes, EnumArg(fmt_enum))]

ExtractAndConvert ==
    /\ pc = "extract"
    /\ LET x == ExtractHash(image_h_data_ns.bytes, output_format_enum)
       IN  /\ calls' = calls \o x.made
           /\ IF x.res.kind = "returned"
              THEN /\ outcome' = x.res
                   /\ pc' = "finally"
              ELSE RaiseInTry(x.res.exc, x.res.msg)
    /\ UNCHANGED <<cliVars, convVars>>
    /\ UNCHANGED <<PYOBJC_AVAILABLE, image_path, output_format,
                   output_format_enum, pool, NeuralHashRequestClass, image_url,
                   request_handler, neural_hash_request, success, results, obs,
                   image_h_data_ns>>

\* the finally block does not let go of the pool
Finally_PoolKept ==
    /\ pc = "finally"
    /\ pc' = "done"
    /\ UNCHANGED <<cliVars, convVars>>
    /\ UNCHANGED <<PYOBJC_AVAILABLE, image_path, output_format, output_format_enum, pool,
                   NeuralHashRequestClass, image_url, request_handler,
                   neural_hash_request, success, results, obs, image_h_data_ns, calls,
                   outcome>>

Finally ==
    /\ pc = "finally"
    /\ pool' = IF PYOBJC_AVAILABLE /\ pool # "none" THEN "released" ELSE pool
    /\ pc' = "done"
    /\ UNCHANGED <<cliVars, convVars>>
    /\ UNCHANGED <<PYOBJC_AVAILABLE, image_path, output_format,
                   output_format_enum, NeuralHashRequestClass, image_url,
                   request_handler, neural_hash_request, success, results, obs,
                   image_h_data_ns, calls, outcome>>

\* no call of calculate_neural_hash is in progress
HasherIdle ==
    /\ pc = "idle"
    /\ image_path = ""
    /\ output_format = EnumArg("HEX")
    /\ output_format_enum = ""
    /\ pool = "none"
    /\ NeuralHashRequestClass = "unset"
    /\ image_url = "unset"
    /\ request_handler = "unset"
    /\ neural_hash_request = NoRequest
    /\ success = "unset"
    /\ results = <<>>
    /\ obs = 0
    /\ image_h_data_ns = NoData
    /\ calls = <<>>
    /\ outcome = NoOutcome

\* main's locals before it has done anything
CliFresh ==
    /\ args_image_paths = <<>>
    /\ args_format = OutputFormatValue("HEX")
    /\ path_index = 0
    /\ any_successful_processing = FALSE
    /\ exit_code = 0
    /\ exit_status = -1
    /\ cli_pool = "none"
    /\ stdout = <<>>
    /\ stderr = <<>>
    /\ invocations = <<>>

\* main is not running
CliOff ==
    /\ cli_pc = "off"
    /\ CliFresh

\* the converter is not being called on its own
ConvOff ==
    /\ conv_raw_bytes = <<>>
    /\ conv_format = EnumArg("HEX")
    /\ conv_result = NoOutcome

Init ==
    /\ PYOBJC_AVAILABLE \in BOOLEAN
    /\ cli_PYOBJC_AVAILABLE = PYOBJC_AVAILABLE
    /\ HasherIdle
    /\ CliOff
    /\ ConvOff

Next ==
    \/ Call
    \/ EnsurePyObjCAvailable
    \/ ParseOutputFormat
    \/ AllocPool
    \/ LookUpClass
    \/ FileURLWithPath
    \/ InitRequestHandler
    \/ InitRequest
    \/ CheckSetters
    \/ SetPrintType
    \/ SetHashType
    \/ PerformRequests
    \/ GetResults
    \/ LoopNext
    \/ CheckAccessor
    \/ ImageSignatureHash
    \/ CheckEncoder
    \/ EncodeHashDescriptor
    \/ ExtractAndConvert
    \/ Finally

Spec == Init /\ [][Next]_vars

(***************************************************************************)
(* cli.main                                                                *)
(***************************************************************************)
\* what a path of the command line is on disk
PathKinds == {"missing", "dir", "file"}

\* nargs='+': at least one path
PathLists == SeqsUpTo(PathKinds, MaxPaths) \ {<<>>}

Line(k, text) == [path |-> k, text |-> text]

\* what a call of calculate_neural_hash can give main: with the hasher's flag
\* false it raises PyObjCNotAvailableError; otherwise it returns a string or
\* raises a kind of the taxonomy, and main also guards against anything else
CalcOutcomes(available) ==
    IF ~available
    THEN {Raised("PyObjCNotAvailableError", "PyObjC (Foundation, Vision) not found", "")}
    ELSE {Returned(HYPOTHETICAL_B64_HASH)}
         \cup {Raised(e, "", "") : e \in Taxonomy \ {"PyObjCNotAvailableError"}}
         \cup {Raised("Exception", "unexpected", "")}

\* a directory passes the validation
ValidatePath_NoFileCheck(kind) ==
    IF kind = "missing" THEN "Error: Image path not found" ELSE "ok"

\* os.path.exists, then os.path.isfile
ValidatePath(kind) ==
    CASE kind = "missing" -> "Error: Image path not found"
      [] kind = "dir"     -> "Error: Path is not a file"
      [] OTHER            -> "ok"

\* any NeuralHashError ends the loop
HandleOutcome_ErrorStops(r) ==
    IF r.kind = "returned"
    THEN [ok |-> TRUE, out |-> "neural_hash", err |-> "", stop |-> FALSE]
    ELSE IF IsSubclass(r.exc, "PyObjCNotAvailableError")
    THEN [ok |-> FALSE, out |-> "", err |-> "Error: Critical PyObjC dependency missing",
          stop |-> TRUE]
    ELSE IF IsSubclass(r.exc, "NeuralHashError")
    THEN [ok |-> FALSE, out |-> "", err |-> "Error generating NeuralHash", stop |-> TRUE]
    ELSE [ok |-> FALSE, out |-> "", err |-> "An unexpected error occurred", stop |-> FALSE]

\* the try statement around the call: what is printed, and whether the loop breaks
HandleOutcome(r) ==
    IF r.kind = "returned"
    THEN [ok |-> TRUE, out |-> "neural_hash", err |-> "", stop |-> FALSE]
    ELSE IF IsSubclass(r.exc, "PyObjCNotAvailableError")
    THEN [ok |-> FALSE, out |-> "", err |-> "Error: Critical PyObjC dependency missing",
          stop |-> TRUE]
    ELSE IF IsSubclass(r.exc, "NeuralHashError")
    THEN [ok |-> FALSE, out |-> "", err |-> "Error generating NeuralHash", stop |-> FALSE]
    ELSE [ok |-> FALSE, out |-> "", err |-> "An unexpected error occurred", stop |-> FALSE]

\* main up to args = parser.parse_args()
CliStart ==
    /\ cli_pc = "start"
    /\ cli_pool' = IF cli_PYOBJC_AVAILABLE THEN "held" ELSE "none"
    /\ \E paths \in PathLists, fmt \in {OutputFormatValue(m) : m \in OutputFormatMembers} :
          /\ args_image_paths' = paths
          /\ args_format' = fmt
    /\ cli_pc' = "probe"
    /\ UNCHANGED <<cli_PYOBJC_AVAILABLE, path_index, any_successful_processing, exit_code,
                   exit_status, stdout, stderr, invocations>>
    /\ UNCHANGED <<hasherVars, convVars>>

\* the flag is not looked at
CliProbe_NoEarlyExit ==
    /\ cli_pc = "probe"
    /\ any_successful_processing' = FALSE
    /\ exit_code' = 0
    /\ cli_pc' = "loop"
    /\ UNCHANGED <<stderr, exit_status>>
    /\ UNCHANGED <<cli_PYOBJC_AVAILABLE, args_image_paths, args_format, path_index, cli_pool,
                   stdout, invocations>>
    /\ UNCHANGED <<hasherVars, convVars>>

\* the early exit on a missing dependency, else the loop's initialisation
CliProbe ==
    /\ cli_pc = "probe"
    /\ IF ~cli_PYOBJC_AVAILABLE
       THEN /\ stderr' = stderr \o <<Line(0, "Error: PyObjC components (Foundation, Vision) not found"),
                                     Line(0, "Please see installation instructions in README.md.")>>
            /\ exit_status' = 1
            /\ cli_pc' = "exited"
            /\ UNCHANGED <<any_successful_processing, exit_code>>
       ELSE /\ any_successful_processing' = FALSE
            /\ exit_code' = 0
            /\ cli_pc' = "loop"
            /\ UNCHANGED <<stderr, exit_status>>
    /\ UNCHANGED <<cli_PYOBJC_AVAILABLE, args_image_paths, args_format, path_index, cli_pool,
                   stdout, invocations>>
    /\ UNCHANGED <<hasherVars, convVars>>

\* one iteration of the for loop
CliProcessPath ==
    /\ cli_pc = "loop"
    /\ path_index < Len(args_image_paths)
    /\ LET i == path_index + 1
           n == Len(args_image_paths)
           checked == ValidatePath(args_image_paths[i])
           header == Line(i, IF n > 1 THEN "--- Processing image" ELSE "Processing image:")
           separator == IF n > 1 /\ i < n THEN <<Line(i, "------------------------------")>>
                        ELSE <<>>
       IN  /\ path_index' = i
           /\ IF checked # "ok"
              THEN /\ stderr' = Append(stderr, Line(i, checked))
                   /\ exit_code' = 1
                   /\ cli_pc' = IF i = n THEN "exit" ELSE "loop"
                   /\ UNCHANGED <<stdout, invocations, any_successful_processing>>
              ELSE /\ invocations' = Append(invocations,
                                            [path |-> i, format |-> OutputFormatLookup(args_format)])
                   /\ \E r \in CalcOutcomes(PYOBJC_AVAILABLE) :
                        LET h == HandleOutcome(r)
                        IN  /\ stdout' = stdout \o <<header>>
                                         \o (IF h.ok THEN <<Line(i, h.out)>> ELSE <<>>)
                                         \o (IF h.stop THEN <<>> ELSE separator)
                            /\ stderr' = IF h.ok THEN stderr ELSE Append(stderr, Line(i, h.err))
                            /\ any_successful_processing' = (any_successful_processing \/ h.ok)
                            /\ exit_code' = IF h.ok THEN exit_code ELSE 1
                            /\ cli_pc' = IF h.stop \/ i = n THEN "exit" ELSE "loop"
    /\ UNCHANGED <<cli_PYOBJC_AVAILABLE, args_image_paths, args_format, exit_status, cli_pool>>
    /\ UNCHANGED <<hasherVars, convVars>>

\* one success is enough for exit code 0
CliExit_ZeroOnAnySuccess ==
    /\ cli_pc = "exit"
    /\ cli_pool' = IF cli_pool = "held" THEN "released" ELSE cli_pool
    /\ exit_status' = IF any_successful_processing THEN 0 ELSE 1
    /\ cli_pc' = "exited"
    /\ UNCHANGED <<cli_PYOBJC_AVAILABLE, args_image_paths, args_format, path_index,
                   any_successful_processing, exit_code, stdout, stderr, invocations>>
    /\ UNCHANGED <<hasherVars, convVars>>

\* after the loop: the pool, and the exit code
CliExit ==
    /\ cli_pc = "exit"
    /\ cli_pool' = IF cli_pool = "held" THEN "released" ELSE cli_pool
    /\ exit_status' = IF ~any_successful_processing /\ args_image_paths # <<>>
                      THEN (IF exit_code > 1 THEN exit_code ELSE 1)
                      ELSE exit_code
    /\ cli_pc' = "exited"
    /\ UNCHANGED <<cli_PYOBJC_AVAILABLE, args_image_paths, args_format, path_index,
                   any_successful_processing, exit_code, stdout, stderr, invocations>>
    /\ UNCHANGED <<hasherVars, convVars>>

\* the two flags are separate bindings (cli.py:17 copies the hasher's at import)
InitCLI ==
    /\ PYOBJC_AVAILABLE \in BOOLEAN
    /\ cli_PYOBJC_AVAILABLE \in BOOLEAN
    /\ HasherIdle
    /\ cli_pc = "start"
    /\ CliFresh
    /\ ConvOff

NextCLI ==
    \/ CliStart
    \/ CliProbe
    \/ CliProcessPath
    \/ CliExit

SpecCLI == InitCLI /\ [][NextCLI]_vars

(***************************************************************************)
(* _convert_raw_hash_bytes called on its own                               *)
(***************************************************************************)
\* byte values with leading zero digits, letters as digits, and both ends
RawByteValues == {0, 9, 16, 65, 171, 255}

RawByteSeqs == SeqsUpTo(RawByteValues, MaxBytesLen)

\* an enum member, or something that is not one
ConvFormats == {EnumArg(m) : m \in OutputFormatMembers} \cup {StrArg(OutputFormatValue("HEX"))}

ConvertCall ==
    /\ conv_result = NoOutcome
    /\ conv_result' = ConvertRawHashBytes(conv_raw_bytes, conv_format)
    /\ UNCHANGED <<conv_raw_bytes, conv_format>>
    /\ UNCHANGED <<hasherVars, cliVars>>

InitConv ==
    /\ PYOBJC_AVAILABLE \in BOOLEAN
    /\ cli_PYOBJC_AVAILABLE = PYOBJC_AVAILABLE
    /\ HasherIdle
    /\ CliOff
    /\ conv_raw_bytes \in RawByteSeqs
    /\ conv_format \in ConvFormats
    /\ conv_result = NoOutcome

NextConv ==
    \/ ConvertCall

SpecConv == InitConv /\ [][NextConv]_vars

(***************************************************************************)
(* Properties                                                              *)
(***************************************************************************)
Made(op) == \E i \in DOMAIN calls : calls[i].op = op
LastOp == IF calls = <<>> THEN "" ELSE calls[Len(calls)].op
Ended == pc \in {"finally", "done"}
IsFormatValue(t) == \E m \in OutputFormatMembers : OutputFormatValue(m) = t
\* the observation is one the loop passes over
Skipped(o) == ~o.hasAccessor \/ o.hash = "null"
IsAscii(bytes) == \A i \in DOMAIN bytes : bytes[i] < 128

\* C1: when the availability flag is false, a call of calculate_neural_hash
\* ends at its first step with PyObjCNotAvailableError, whatever the path and
\* the format argument: the format is not normalised, no pool is created, no
\* class is looked up and no native call is made.
C1_UnavailableFailsFirst ==
    (~PYOBJC_AVAILABLE /\ pc # "idle") =>
        /\ pc \in {"ensure", "done"}
        /\ calls = <<>>
        /\ pool = "none"
        /\ NeuralHashRequestClass = "unset"
        /\ output_format_enum = ""
        /\ pc = "done" => (outcome.kind = "raised" /\ outcome.exc = "PyObjCNotAvailableError")

C1_Witness ==
    /\ ~PYOBJC_AVAILABLE
    /\ pc = "done"
    /\ outcome.exc = "PyObjCNotAvailableError"
    /\ output_format = StrArg(<<122, 122, 122>>)

\* the call was rejected at the format check, before the native pipeline
RejectedFormat ==
    /\ pc = "done"
    /\ outcome.kind = "raised"
    /\ outcome.exc = "InvalidFormatError"
    /\ calls = <<>>
    /\ pool = "none"
    /\ NeuralHashRequestClass = "unset"

PastFormatCheck == pc \notin {"idle", "ensure", "parse_format"}

\* C2 as stated: with the dependencies available, an output_format string that
\* is not one of 'hex', 'base64', 'bits' fails with InvalidFormatError and the
\* native pipeline is never reached.
C2_AnyOtherStringRejected ==
    (PYOBJC_AVAILABLE /\ ~output_format.isEnum /\ ~IsFormatValue(output_format.text)
       /\ PastFormatCheck) => RejectedFormat

\* C2 (amended): with the dependencies available, an output_format string whose
\* lower-cased form is not one of 'hex', 'base64', 'bits' fails with
\* InvalidFormatError and the native pipeline is never reached: no pool, no
\* class lookup, no native call.
C2_UnknownFormatRejected ==
    (PYOBJC_AVAILABLE /\ ~output_format.isEnum /\ ~IsFormatValue(Lower(output_format.text))
       /\ PastFormatCheck) => RejectedFormat

C2_Witness ==
    /\ PYOBJC_AVAILABLE
    /\ output_format = StrArg(<<122, 122, 122>>)
    /\ RejectedFormat

C4_ExecuteOnlyAfterConfiguration ==
    /\ \A i \in DOMAIN calls :
          calls[i].op = "performRequests_error_" =>
             /\ neural_hash_request.hasPrintTypeSetter
             /\ neural_hash_request.hasHashTypeSetter
             /\ i > 2
             /\ calls[i - 2] = Entry("setImageSignatureprintType_", 3)
             /\ calls[i - 1] = Entry("setImageSignatureHashType_", 1)
             /\ neural_hash_request.printType = 3
             /\ neural_hash_request.hashType = 1
    /\ ( /\ neural_hash_request.exists
         /\ ~(neural_hash_request.hasPrintTypeSetter /\ neural_hash_request.hasHashTypeSetter)
         /\ pc # "check_setters" ) =>
             /\ Ended
             /\ outcome.kind = "raised"
             /\ outcome.exc = "VisionAPIError"
             /\ ~Made("setImageSignatureprintType_")
             /\ ~Made("setImageSignatureHashType_")
             /\ ~Made("performRequests_error_")

C4_Witness ==
    /\ Made("performRequests_error_")
    /\ neural_hash_request.printType = 3
    /\ neural_hash_request.hashType = 1
    /\ pc = "done"

\* results() returned an empty list (and did not raise)
EmptyResultList ==
    Ended /\ Made("results") /\ results = <<>> /\ outcome.cause = ""

\* C5 as stated: an empty result list makes the call fail with the umbrella
\* NeuralHashError itself, with a message about no results.
C5_NoResultsIsGenericError ==
    EmptyResultList =>
        /\ outcome.kind = "raised"
        /\ outcome.exc = "NeuralHashError"
        /\ outcome.msg = "No results returned from Vision request"

\* C5 (amended): an empty result list makes the call fail with VisionAPIError
\* (not the umbrella NeuralHashError itself), with a message about no results.
C5_NoResultsIsVisionAPIError ==
    EmptyResultList =>
        /\ LastOp = "results"
        /\ outcome.kind = "raised"
        /\ outcome.exc = "VisionAPIError"
        /\ outcome.msg = "No results returned from Vision request"

C5_Witness ==
    /\ pc = "done"
    /\ EmptyResultList
    /\ success = "true"
    /\ outcome.exc = "VisionAPIError"

\* C6: an observation without the hash accessor, or whose accessor gives null,
\* sends the loop on to the next observation without failing the call; when
\* the list is not empty and every observation was passed over like that, the
\* call fails with the base NeuralHashError ('could not extract'), not with
\* VisionAPIError.
C6_SkippedObservations ==
    /\ (pc = "loop" /\ obs >= 1) =>
          /\ Skipped(results[obs])
          /\ outcome.kind = "none"
    /\ (Ended /\ obs >= 1 /\ Skipped(results[obs]) /\ outcome.cause = "") =>
          /\ obs = Len(results)
          /\ \A i \in DOMAIN results : Skipped(results[i])
          /\ outcome.kind = "raised"
          /\ outcome.exc = "NeuralHashError"
          /\ outcome.msg = "Could not extract NeuralHash from any observation"

C6_Witness ==
    /\ pc = "done"
    /\ Len(results) >= 2
    /\ ~results[1].hasAccessor
    /\ results[2].hasAccessor
    /\ \A i \in DOMAIN results : Skipped(results[i])
    /\ outcome.exc = "NeuralHashError"
    /\ outcome.msg = "Could not extract NeuralHash from any observation"

\* C7: with base64 requested, the call returns the descriptor string exactly
\* as the encoding method of the first usable observation gave it, the empty
\* string included, and neither base64.b64decode nor _convert_raw_hash_bytes
\* is called.
C7_Base64ReturnedAsIs ==
    output_format_enum = "BASE64" =>
        /\ ~Made("base64.b64decode")
        /\ ~Made("_convert_raw_hash_bytes")
        /\ (Ended /\ image_h_data_ns.state = "data" /\ IsAscii(image_h_data_ns.bytes)) =>
              /\ outcome = Returned(image_h_data_ns.bytes)
              /\ results[obs].hasAccessor
              /\ results[obs].hash = "encoder"
              /\ \A j \in 1..(obs - 1) : Skipped(results[j])

C7_Witness ==
    /\ pc = "done"
    /\ output_format_enum = "BASE64"
    /\ image_h_data_ns = Data(<<>>)
    /\ outcome = Returned(<<>>)

\* C8: with hex or bits requested, a descriptor string that is empty or that
\* base64.b64decode rejects makes the call fail at once with the base
\* NeuralHashError: nothing is returned, the converter is not called, no later
\* observation is consulted; the same descriptor requested as base64 is
\* returned.
C8_UndecodableDescriptorIsFatal ==
    ( /\ output_format_enum \in {"HEX", "BITS"}
      /\ Ended
      /\ image_h_data_ns.state = "data"
      /\ IsAscii(image_h_data_ns.bytes)
      /\ (image_h_data_ns.bytes = <<>> \/ ~b64decode(image_h_data_ns.bytes).ok) ) =>
          /\ outcome.kind = "raised"
          /\ outcome.exc = "NeuralHashError"
          /\ outcome.value = <<>>
          /\ ~Made("_convert_raw_hash_bytes")
          /\ \A i \in DOMAIN calls :
                calls[i].op \in {"imageSignatureHash",
                                 "encodeHashDescriptorWithBase64EncodingAndReturnError_"}
                   => calls[i].arg <= obs
          /\ ExtractHash(image_h_data_ns.bytes, "BASE64").res = Returned(image_h_data_ns.bytes)

C8_Witness ==
    /\ pc = "done"
    /\ output_format_enum = "HEX"
    /\ image_h_data_ns = Data(<<81>>)
    /\ obs < Len(results)
    /\ results[obs + 1] = [hasAccessor |-> TRUE, hash |-> "encoder"]
    /\ outcome.exc = "NeuralHashError"

\* C9: a null file URL, or a null request handler, makes the call fail with
\* ImageProcessingError (not VisionAPIError); the private request class is
\* then never instantiated and no request is executed.
C9_NullUrlOrHandler ==
    (image_url = "null" \/ request_handler = "null") =>
        /\ Ended
        /\ outcome.kind = "raised"
        /\ outcome.exc = "ImageProcessingError"
        /\ ~neural_hash_request.exists
        /\ ~Made("NeuralHashRequestClass.alloc.init")
        /\ ~Made("performRequests_error_")

C9_Witness ==
    /\ pc = "done"
    /\ image_url = "object"
    /\ request_handler = "null"
    /\ outcome.exc = "ImageProcessingError"

\* C10: when performRequests returns a false success flag without raising,
\* the call fails with VisionAPIError and results() is never read.
C10_FalseSuccessFlag ==
    success = "false" =>
        /\ Ended
        /\ outcome.kind = "raised"
        /\ outcome.exc = "VisionAPIError"
        /\ outcome.msg = "Vision request failed"
        /\ ~Made("results")
        /\ results = <<>>

C10_Witness ==
    /\ pc = "done"
    /\ success = "false"
    /\ outcome.exc = "VisionAPIError"

\* C11: a call of calculate_neural_hash that acquired the autorelease pool
\* has released it when it ends, however it ends (a returned string, an error
\* of the taxonomy, a re-wrapped unexpected exception); no call ends with the
\* pool still held, and the pool stays held until the finally block.
C11_PoolReleasedOnEveryExit ==
    /\ pc = "done" => pool # "held"
    /\ (pc = "done" /\ Made("NSAutoreleasePool.alloc.init")) => pool = "released"
    /\ (pc \notin {"idle", "ensure", "parse_format", "alloc_pool", "done"}) => pool = "held"

C11_Witness ==
    /\ pc = "done"
    /\ pool = "released"
    /\ outcome.kind = "raised"
    /\ outcome.exc = "NeuralHashError"
    /\ outcome.msg = "A Python error occurred while processing"


\* the error came out of an except clause that wraps the exception e
Wrapped(e) == outcome.kind = "raised" /\ outcome.cause = NativeMessage(e)

\* C18: an objc.error raised by a step inside the try leaves the call as
\* VisionAPIError with the Objective-C message and the original message
\* carried along; an AttributeError leaves it as VisionAPIError with the
\* AttributeError message; no call ends with either of the two unwrapped
C18_NativeErrorsBecomeVisionAPIError ==
    /\ Wrapped("objc.error") =>
          /\ outcome.exc = "VisionAPIError"
          /\ outcome.msg = "An Objective-C error occurred processing"
    /\ Wrapped("AttributeError") =>
          /\ outcome.exc = "VisionAPIError"
          /\ outcome.msg = "An AttributeError occurred"
    /\ outcome.kind = "raised" =>
          /\ outcome.exc \notin {"objc.error", "AttributeError"}
          /\ outcome.msg \in {"An Objective-C error occurred processing",
                              "An AttributeError occurred"}
                => outcome.cause # ""

C18_Witness ==
    /\ pc = "done"
    /\ LastOp = "performRequests_error_"
    /\ Wrapped("objc.error")
    /\ outcome.exc = "VisionAPIError"
    /\ pool = "released"

IsConsult(op) ==
    op \in {"imageSignatureHash", "encodeHashDescriptorWithBase64EncodingAndReturnError_"}

\* no observation before the k-th is usable, and the k-th is
FirstUsable(k) ==
    /\ k \in 1 .. Len(results)
    /\ ~Skipped(results[k])
    /\ \A j \in 1 .. (k - 1) : Skipped(results[j])

\* C19: no observation after the first one with the accessor and a non-null
\* hash object is ever consulted; a returned hash is that observation's; and
\* if its hash object lacks the encoding method, or the encoding gives null,
\* the call ends there with VisionAPIError
C19_FirstUsableObservationDecides ==
    \A k \in 1 .. Len(results) :
        FirstUsable(k) =>
            /\ obs <= k
            /\ \A i \in DOMAIN calls : IsConsult(calls[i].op) => calls[i].arg <= k
            /\ (outcome.kind = "returned" /\ Made("results")) =>
                  /\ obs = k
                  /\ calls[Len(calls) - Len(ExtractHash(image_h_data_ns.bytes,
                                                        output_format_enum).made)]
                       = Entry("encodeHashDescriptorWithBase64EncodingAndReturnError_", k)
                  /\ outcome = ExtractHash(image_h_data_ns.bytes, output_format_enum).res
            /\ (Ended /\ obs = k /\ results[k].hash = "noEncoder" /\ outcome.cause = "") =>
                  /\ outcome.kind = "raised"
                  /\ outcome.exc = "VisionAPIError"
                  /\ calls[Len(calls)] = Entry("imageSignatureHash", k)
            /\ (Ended /\ obs = k /\ image_h_data_ns = NullData) =>
                  /\ outcome.kind = "raised"
                  /\ outcome.exc = "VisionAPIError"
                  /\ outcome.msg = "Encoding hash descriptor failed"

C19_Witness ==
    /\ pc = "done"
    /\ Len(results) = 2
    /\ results[1] = [hasAccessor |-> TRUE, hash |-> "noEncoder"]
    /\ results[2] = [hasAccessor |-> TRUE, hash |-> "encoder"]
    /\ obs = 1
    /\ outcome.kind = "raised"
    /\ outcome.exc = "VisionAPIError"
    /\ outcome.msg = "Hash object does not support the required encoding method"

\* the messages of the errors the steps raise themselves, by kind
StepMessages(kind) ==
    CASE kind = "ImageProcessingError" ->
            {"Could not create a valid URL", "Could not initialize image request handler"}
      [] kind = "VisionAPIError" ->
            {"Required Vision class not found", "Failed to init NeuralHash request object",
             "instance missing required setters", "Vision request failed",
             "No results returned from Vision request",
             "Hash object does not support the required encoding method",
             "Encoding hash descriptor failed"}
      [] kind = "InvalidFormatError" ->
            {"Invalid output_format value"}
      [] OTHER -> {}

SpecificKinds == {"ImageProcessingError", "VisionAPIError", "InvalidFormatError"}

\* a call ends with a returned string or with an error of the taxonomy
EndsInStringOrTaxonomyError ==
    Ended =>
        \/ outcome.kind = "returned" /\ outcome.value \in Seq(0 .. 255)
        \/ outcome.kind = "raised" /\ IsSubclass(outcome.exc, "NeuralHashError")

\* an error of a specific kind raised by a step is the call's error, unwrapped
SpecificKindsKept ==
    \A kind \in SpecificKinds :
        (outcome.kind = "raised"
         /\ (outcome.msg \in StepMessages(kind) \/ outcome.cause \in StepMessages(kind)))
        => (outcome.exc = kind /\ outcome.cause = "")

\* C20 as stated: a returned string or an error of the taxonomy; a specific
\* kind raised by a step is kept; every other exception is re-wrapped as the
\* generic NeuralHashError
C20_AnyOtherExceptionIsGeneric ==
    /\ EndsInStringOrTaxonomyError
    /\ SpecificKindsKept
    /\ (outcome.kind = "raised" /\ outcome.cause # "") => outcome.exc = "NeuralHashError"

\* C20 amended: as stated, except that objc.error and AttributeError are
\* re-wrapped as VisionAPIError and only the remaining exceptions as the
\* generic NeuralHashError
C20_OutcomeKinds ==
    /\ EndsInStringOrTaxonomyError
    /\ SpecificKindsKept
    /\ (outcome.kind = "raised" /\ outcome.cause # ""
        /\ ~Wrapped("objc.error") /\ ~Wrapped("AttributeError"))
       => /\ outcome.exc = "NeuralHashError"
          /\ outcome.msg = "A Python error occurred while processing"
    /\ (Wrapped("objc.error") \/ Wrapped("AttributeError")) => outcome.exc = "VisionAPIError"

C20_Witness ==
    /\ pc = "done"
    /\ outcome.kind = "raised"
    /\ outcome.exc = "NeuralHashError"
    /\ outcome.msg = "A Python error occurred while processing"
    /\ outcome.cause = "codec can't decode byte"
    /\ LastOp = "encodeHashDescriptorWithBase64EncodingAndReturnError_"

(***************************************************************************)
(* Properties of cli.main                                                  *)
(***************************************************************************)
Paths == 1 .. Len(args_image_paths)

CliExited == cli_pc = "exited"

Wrote(stream, k, text) == \E j \in 1 .. Len(stream) : stream[j] = Line(k, text)

HashedOk(k) == Wrote(stdout, k, "neural_hash")

Invoked(k) == \E j \in 1 .. Len(invocations) : invocations[j].path = k

DependencyLine(k) == Wrote(stderr, k, "Error: Critical PyObjC dependency missing")

\* C12 as stated: exit code 0 if at least one path was hashed successfully,
\* non-zero if none was
C12_ZeroIfAnySucceeded ==
    CliExited =>
        /\ (\E k \in Paths : HashedOk(k)) => exit_status = 0
        /\ (\A k \in Paths : ~HashedOk(k)) => exit_status # 0

\* C12 amended: the exit code is 0 exactly when every given path was hashed
\* successfully; any path that was not makes it non-zero, in particular
\* when none was
C12_ZeroIffAllSucceeded ==
    CliExited =>
        /\ exit_status = 0 <=> (\A k \in Paths : HashedOk(k))
        /\ (\A k \in Paths : ~HashedOk(k)) => exit_status # 0

C12_Witness ==
    /\ CliExited
    /\ \E k \in Paths : HashedOk(k)
    /\ \E k \in Paths : ~HashedOk(k)
    /\ exit_status = 1

\* C13: a path that does not exist or is not a regular file is never handed to
\* calculate_neural_hash and gets nothing on stdout; once the loop has come to
\* it its own error line is on stderr; and when main has exited, stderr holds
\* an error line and the exit code is non-zero
C13_InvalidPathsRejected ==
    \A k \in Paths :
        args_image_paths[k] # "file" =>
            /\ ~Invoked(k)
            /\ \A j \in 1 .. Len(stdout) : stdout[j].path # k
            /\ k <= path_index =>
                  Wrote(stderr, k, IF args_image_paths[k] = "missing"
                                   THEN "Error: Image path not found"
                                   ELSE "Error: Path is not a file")
            /\ CliExited => (stderr # <<>> /\ exit_status # 0)

C13_Witness ==
    /\ CliExited
    /\ \E k \in Paths : args_image_paths[k] = "dir" /\ Wrote(stderr, k, "Error: Path is not a file")
    /\ \E k \in Paths : args_image_paths[k] = "missing" /\ Wrote(stderr, k, "Error: Image path not found")
    /\ \E k \in Paths : HashedOk(k)
    /\ exit_status = 1

\* the valid paths among the first n, in command-line order, each with the
\* member selected by --format
ExpectedInvocations(n) ==
    LET valid == SelectSeq([k \in 1 .. n |-> k], LAMBDA k : args_image_paths[k] = "file")
        member == CHOOSE m \in OutputFormatMembers : OutputFormatValue(m) = args_format
    IN  [j \in 1 .. Len(valid) |-> [path |-> valid[j], format |-> member]]

NonDecreasing(stream) ==
    \A i, j \in 1 .. Len(stream) : i < j => stream[i].path <= stream[j].path

\* C14: the invocations made so far are exactly the valid paths the loop has
\* come to, once each, in order, with the selected format; the output of one
\* path is complete before the next begins; and unless the dependency is
\* reported missing the loop comes to every path, whatever failed before
C14_EveryValidPathInvokedOnce ==
    /\ invocations = ExpectedInvocations(path_index)
    /\ NonDecreasing(stdout) /\ NonDecreasing(stderr)
    /\ (/\ cli_pc = "exit" \/ (CliExited /\ cli_PYOBJC_AVAILABLE)
        /\ \A k \in Paths : ~DependencyLine(k))
       => path_index = Len(args_image_paths)

C14_Witness ==
    /\ CliExited
    /\ Len(args_image_paths) = 3
    /\ Wrote(stderr, 1, "Error: Image path not found")
    /\ Wrote(stderr, 2, "Error generating NeuralHash")
    /\ HashedOk(3)
    /\ Len(invocations) = 2

\* C15: with the flag false main exits with 1 and invokes nothing; and once
\* calculate_neural_hash has raised PyObjCNotAvailableError for a path, the
\* loop is over at that path, nothing is invoked or written for a later path,
\* and the exit code is non-zero
C15_UnavailableDependencyIsFatal ==
    /\ ~cli_PYOBJC_AVAILABLE =>
          /\ invocations = <<>>
          /\ cli_pc \in {"start", "probe", "exited"}
          /\ CliExited => exit_status = 1
    /\ \A k \in Paths :
          DependencyLine(k) =>
              /\ cli_pc \in {"exit", "exited"}
              /\ path_index = k
              /\ \A j \in Paths : j > k => ~Invoked(j)
              /\ \A j \in 1 .. Len(stdout) : stdout[j].path <= k
              /\ \A j \in 1 .. Len(stderr) : stderr[j].path <= k
              /\ CliExited => exit_status # 0

C15_Witness ==
    /\ CliExited
    /\ DependencyLine(1)
    /\ Len(args_image_paths) = 3
    /\ args_image_paths[2] = "missing"
    /\ args_image_paths[3] = "file"
    /\ exit_status = 1


(***************************************************************************)
(* Properties of _convert_raw_hash_bytes                                   *)
(***************************************************************************)
Converted(m) ==
    /\ conv_result.kind = "returned"
    /\ conv_format.isEnum
    /\ conv_format.member = m

\* value of a lower-case hexadecimal digit, -1 for any other character
HexValue(c) ==
    IF c >= 48 /\ c <= 57 THEN c - 48
    ELSE IF c >= 97 /\ c <= 102 THEN c - 87
    ELSE -1

\* the bytes a string of hexadecimal digit pairs stands for
HexDecode(s) ==
    [k \in 1 .. (Len(s) \div 2) |-> 16 * HexValue(s[2 * k - 1]) + HexValue(s[2 * k])]

IsStandardBase64Char(c) == B64Value(c) < 64 \/ c = 61

\* C16: the hex output has two lower-case hexadecimal digits per byte and
\* nothing else, and hex-decoding it gives the bytes back; the base64 output
\* uses only the standard alphabet (and '=' padding), and base64-decoding it
\* gives the bytes back
C16_HexAndBase64Lossless ==
    /\ Converted("HEX") =>
          /\ Len(conv_result.value) = 2 * Len(conv_raw_bytes)
          /\ \A i \in 1 .. Len(conv_result.value) : HexValue(conv_result.value[i]) >= 0
          /\ HexDecode(conv_result.value) = conv_raw_bytes
    /\ Converted("BASE64") =>
          /\ \A i \in 1 .. Len(conv_result.value) : IsStandardBase64Char(conv_result.value[i])
          /\ Len(conv_result.value) = 4 * ((Len(conv_raw_bytes) + 2) \div 3)
          /\ b64decode(conv_result.value) = DecodeOk(conv_raw_bytes)

C16_Witness ==
    /\ Converted("HEX")
    /\ conv_raw_bytes = <<9, 171, 255>>
    /\ conv_result.value = <<48, 57, 97, 98, 102, 102>>

\* the byte that 8 binary digits stand for, most significant bit first
BitsValue(s, k) ==
    LET d(j) == s[8 * (k - 1) + j] - 48
    IN  128 * d(1) + 64 * d(2) + 32 * d(3) + 16 * d(4) + 8 * d(5) + 4 * d(6) + 2 * d(7) + d(8)

\* C17: the bits output has 8 characters per byte, all '0' or '1', and its
\* k-th group of 8 is the k-th byte in binary, most significant bit first
C17_BitsOutput ==
    Converted("BITS") =>
        /\ Len(conv_result.value) = 8 * Len(conv_raw_bytes)
        /\ \A i \in 1 .. Len(conv_result.value) : conv_result.value[i] \in {48, 49}
        /\ \A k \in 1 .. Len(conv_raw_bytes) : BitsValue(conv_result.value, k) = conv_raw_bytes[k]

C17_Witness ==
    /\ Converted("BITS")
    /\ conv_raw_bytes = <<9, 16>>
    /\ conv_result.value = <<48, 48, 48, 48, 49, 48, 48, 49, 48, 48, 48, 49, 48, 48, 48, 48>>

(***************************************************************************)
(* calculate_neural_hash against _convert_raw_hash_bytes                   *)
(***************************************************************************)
\* the call was given hex or bits, as a member or as the member's string value
AskedFor(m) ==
    \/ output_format = EnumArg(m)
    \/ output_format = StrArg(OutputFormatValue(m))

\* the call returned a string made from a descriptor of the framework
ReturnedFromDescriptor ==
    /\ Ended
    /\ outcome.kind = "returned"
    /\ image_h_data_ns.state = "data"

HYPOTHETICAL_HEX ==
    <<52, 49, 52, 50, 52, 51, 52, 52, 52, 53, 52, 54, 52, 55, 52, 56,
      52, 57, 52, 97, 52, 98, 52, 99>>

HYPOTHETICAL_BITS ==
    <<48, 49, 48, 48, 48, 48, 48, 49, 48, 49, 48, 48, 48, 48, 49, 48,
      48, 49, 48, 48, 48, 48, 49, 49, 48, 49, 48, 48, 48, 49, 48, 48,
      48, 49, 48, 48, 48, 49, 48, 49, 48, 49, 48, 48, 48, 49, 49, 48,
      48, 49, 48, 48, 48, 49, 49, 49, 48, 49, 48, 48, 49, 48, 48, 48,
      48, 49, 48, 48, 49, 48, 48, 49, 48, 49, 48, 48, 49, 48, 49, 48,
      48, 49, 48, 48, 49, 48, 49, 49, 48, 49, 48, 48, 49, 49, 48, 48>>

\* C21: for hex and bits, given as a member or as its string value, the
\* returned string is _convert_raw_hash_bytes of the base64-decoded descriptor
\* and that member, so it renders exactly the bytes the descriptor encodes;
\* the descriptor QUJDREVGR0hJSktM gives 4142434445464748494a4b4c and the 96
\* binary digits of the same bytes
C21_HexAndBitsRenderDecodedDescriptor ==
    \A m \in {"HEX", "BITS"} :
        (ReturnedFromDescriptor /\ AskedFor(m)) =>
            LET descriptor == image_h_data_ns.bytes
                raw == b64decode(descriptor)
            IN  /\ raw.ok
                /\ outcome = ConvertRawHashBytes(raw.bytes, EnumArg(m))
                /\ m = "HEX" => HexDecode(outcome.value) = raw.bytes
                /\ m = "BITS" =>
                      /\ Len(outcome.value) = 8 * Len(raw.bytes)
                      /\ \A k \in 1 .. Len(raw.bytes) : BitsValue(outcome.value, k) = raw.bytes[k]
                /\ descriptor = HYPOTHETICAL_B64_HASH =>
                      outcome.value = IF m = "HEX" THEN HYPOTHETICAL_HEX ELSE HYPOTHETICAL_BITS

C21_Witness ==
    /\ pc = "done"
    /\ output_format = StrArg(OutputFormatValue("HEX"))
    /\ image_h_data_ns = Data(HYPOTHETICAL_B64_HASH)
    /\ outcome = Returned(HYPOTHETICAL_HEX)

====
